---- MODULE Spec2Model ----
(***************************************************************************)
(* PageRank engine of src/pagerank.py: crawl, transition_model,            *)
(* sample_pagerank and iterate_pagerank.                                   *)
(*                                                                         *)
(* Python objects live in a heap (address -> dict value) so that aliasing  *)
(* between the corpus, the local dicts and returned dicts is observable.   *)
(* Real numbers are exact rationals.  A dict of reals is a record          *)
(* [den, num] whose value at key k is num[k] / den.  transition_model and  *)
(* sample_pagerank use machine integers for num and den; iterate_pagerank  *)
(* uses arbitrary-precision naturals (little-endian limbs, base 10^4)      *)
(* because its denominators grow with every pass.                          *)
(***************************************************************************)
EXTENDS Integers, Sequences, FiniteSets, TLC

VARIABLES
    directory,       \* crawl's input: file name -> hrefs in the file
    heap,            \* address -> dict object
    corpus,          \* address of the corpus dict (0: not built yet)
    damping_factor,  \* argument damping_factor, <<numerator, denominator>>
    page,            \* argument page of transition_model
    n,               \* argument n of sample_pagerank
    i,               \* number of completed iterations of "for _ in range(n)"
    sample,          \* local sample: None or <<page>>
    sample_count,    \* address of local sample_count (0: unbound)
    weights,         \* distribution the last sample was drawn from
    old_dict,        \* address of local old_dict (0: unbound)
    new_dict,        \* address of local new_dict (0: unbound)
    diff,            \* local diff of iterate_pagerank
    pc,              \* position of the program
    fn,              \* the function called last
    returned,        \* addresses of the dicts returned so far, held by the caller
    calls            \* calls the caller still makes

vars == <<pc, fn, calls, i, n, page, damping_factor, sample, weights, diff,
          directory, corpus, sample_count, old_dict, new_dict, returned, heap>>

(***************************************************************************)
(* Bounds of the model.                                                    *)
(***************************************************************************)
\* largest sample count n handed to sample_pagerank
MaxSamples == 3
\* number of estimator calls made on one corpus in the frame specification
MaxCalls == 2

\* page names of the solver / transition-model corpora (prefixes are used)
Pages == <<"1.html", "2.html", "3.html", "4.html">>
\* page names of the sampler corpora; "" is a falsy identifier in Python
SamplerIds == {"", "1.html", "2.html"}
\* page names of the corpora on which several calls are made in sequence
FrameIds == {"1.html", "2.html"}
\* files of a crawled directory and the hrefs their contents may hold
FileNames == {"1.html", "2.html", "notes.txt"}
Hrefs == {"1.html", "2.html", "notes.txt", "ext.html"}

\* damping factors <<numerator, denominator>>; DAMPING is 0.85
DAMPING == <<17, 20>>
Dampings == {<<1, 1000>>, <<1, 2>>, DAMPING}
\* a damping factor outside (0,1)
BadDampings == {<<0, 1>>}
\* convergence threshold 0.001 = 1 / ThresholdInv
ThresholdInv == 1000

\* Python's None, as the value of the local sample
None == <<>>
NoDist == [den |-> 0, num |-> <<>>]
NoDiff == [den |-> <<>>, num |-> <<>>]

ValidDamping(d) == 0 < d[1] /\ d[1] < d[2]

(***************************************************************************)
(* Integer helpers.                                                        *)
(***************************************************************************)
\* the value of a singleton set; {e(x) : x \in {v}} evaluates v once
The(S) == CHOOSE v \in S : TRUE

RECURSIVE Gcd(_, _)
Gcd(a, b) == IF b = 0 THEN a ELSE The({Gcd(b, r) : r \in {a % b}})

Lcm(a, b) == (a \div Gcd(a, b)) * b

RECURSIVE SumOver(_, _)
\* sum of f[k] over the keys k in S
SumOver(f, S) ==
    IF S = {} THEN 0
    ELSE The({f[k] + SumOver(f, S \ {k}) : k \in {CHOOSE x \in S : TRUE}})

(***************************************************************************)
(* Arbitrary-precision naturals: little-endian sequences of limbs in       *)
(* 0..9999 without a leading zero limb; zero is <<>>.                      *)
(***************************************************************************)
RECURSIVE BFromNat(_)
BFromNat(k) == IF k = 0 THEN <<>> ELSE <<k % 10000>> \o BFromNat(k \div 10000)

RECURSIVE BAddC(_, _, _, _)
\* the limbs of a + b from limb j on, with carry c
BAddC(a, b, j, c) ==
    IF j > Len(a) /\ j > Len(b)
    THEN (IF c = 0 THEN <<>> ELSE <<c>>)
    ELSE The({<<x % 10000>> \o BAddC(a, b, j + 1, x \div 10000) :
                x \in {(IF j <= Len(a) THEN a[j] ELSE 0)
                       + (IF j <= Len(b) THEN b[j] ELSE 0) + c}})

BAdd(a, b) == The({BAddC(x, y, 1, 0) : x \in {a}, y \in {b}})

RECURSIVE BMulC(_, _, _, _)
\* the limbs of a * k from limb j on, with carry c
BMulC(a, k, j, c) ==
    IF j > Len(a)
    THEN (IF c = 0 THEN <<>>
          ELSE The({<<x % 10000>> \o BMulC(a, k, j, x \div 10000) : x \in {c}}))
    ELSE The({<<x % 10000>> \o BMulC(a, k, j + 1, x \div 10000) :
                x \in {a[j] * k + c}})

\* a times the machine integer k, 0 <= k <= 200000
BMul(a, k) == IF k = 0 THEN <<>> ELSE The({BMulC(x, y, 1, 0) : x \in {a}, y \in {k}})

BLessV(a, b) ==
    \/ Len(a) < Len(b)
    \/ /\ Len(a) = Len(b)
       /\ \E j \in 1..Len(a) :
             /\ a[j] < b[j]
             /\ \A m \in (j + 1)..Len(a) : a[m] = b[m]

BLess(a, b) == \E x \in {a}, y \in {b} : BLessV(x, y)

BLeq(a, b) == ~BLess(b, a)

RECURSIVE BTrim(_)
\* s without its leading zero limbs
BTrim(s) == The({IF v = <<>> \/ v[Len(v)] # 0 THEN v
                 ELSE BTrim(SubSeq(v, 1, Len(v) - 1)) : v \in {s}})

RECURSIVE BSubC(_, _, _, _)
\* the limbs of a - b from limb j on, with borrow c
BSubC(a, b, j, c) ==
    IF j > Len(a) THEN <<>>
    ELSE The({IF x < 0 THEN <<x + 10000>> \o BSubC(a, b, j + 1, 1)
              ELSE <<x>> \o BSubC(a, b, j + 1, 0) :
                x \in {a[j] - (IF j <= Len(b) THEN b[j] ELSE 0) - c}})

\* a - b for a >= b
BSub(a, b) == The({BTrim(The({BSubC(x, y, 1, 0)})) : x \in {a}, y \in {b}})

BAbsDiff(a, b) ==
    The({IF BLessV(x, y) THEN BSub(y, x) ELSE BSub(x, y) : x \in {a}, y \in {b}})

RECURSIVE BSumOver(_, _)
BSumOver(f, S) ==
    The({IF T = {} THEN <<>>
         ELSE The({BAdd(fv[k], BSumOver(fv, T \ {k})) : k \in {CHOOSE x \in T : TRUE}}) :
           fv \in {f}, T \in {S}})

RECURSIVE BMaxOver(_, _)
BMaxOver(f, S) ==
    The({IF T = {} THEN <<>>
         ELSE The({The({IF BLessV(m, v) THEN v ELSE m :
                          m \in {BMaxOver(fv, T \ {k})}, v \in {fv[k]}}) :
                     k \in {CHOOSE x \in T : TRUE}}) :
           fv \in {f}, T \in {S}})

(***************************************************************************)
(* The heap of Python objects.                                             *)
(***************************************************************************)
\* the lowest free address
NewAddr(h) == CHOOSE a \in 1..(Cardinality(DOMAIN h) + 1) :
                 /\ a \notin DOMAIN h
                 /\ \A b \in 1..(a - 1) : b \in DOMAIN h

Store(h, a, v) == [x \in DOMAIN h \cup {a} |-> IF x = a THEN v ELSE h[x]]

\* objects that are no longer referenced are freed
Collect(h, roots) == [x \in DOMAIN h \cap roots |-> h[x]]

Range(s) == {s[k] : k \in DOMAIN s}

\* "sample_count = corpus" in place of a copy: the same object
dict_alias(h, src) == src

\* dict.copy(): the address of the new, shallow copy of the dict at src
dict_copy(h, src) == NewAddr(h)

(***************************************************************************)
(* Graphs.                                                                 *)
(***************************************************************************)
\* the corpora over the page set N that crawl can produce
GraphsOn(N) == {g \in [N -> SUBSET N] : \A p \in N : p \notin g[p]}

PagePrefix(k) == {Pages[j] : j \in 1..k}

\* pages named in order of non-increasing out-degree; every corpus is such
\* a corpus after renaming its pages, and no function of this module looks
\* at a page name other than through the truth value of "if sample:"
DegreeSorted(g, k) ==
    \A j \in 1..(k - 1) : Cardinality(g[Pages[j]]) >= Cardinality(g[Pages[j + 1]])

\* every corpus of fewer than Len(Pages) pages, and the corpora of
\* Len(Pages) pages up to renaming
SolverGraphs ==
    UNION {GraphsOn(PagePrefix(k)) : k \in 0..(Len(Pages) - 1)}
    \cup {g \in GraphsOn(PagePrefix(Len(Pages))) : DegreeSorted(g, Len(Pages))}
SamplerGraphs == UNION {GraphsOn(N) : N \in SUBSET SamplerIds}
FrameGraphs == UNION {GraphsOn(N) : N \in (SUBSET FrameIds) \ {{}}}

\* filename.endswith(".html")
EndsWithHtml(filename) == filename \in {"1.html", "2.html", "3.html", "4.html", "ext.html"}

\* the directories crawl may be given: file name -> hrefs found in the file
Directories == UNION {[F -> SUBSET Hrefs] : F \in SUBSET FileNames}

\* first loop of crawl: pages[filename] = set(links) - {filename}
crawl_links(dir) ==
    [filename \in {f \in DOMAIN dir : EndsWithHtml(f)} |-> dir[filename] \ {filename}]

\* crawl without its second loop
crawl_prune_keep(pages) == pages

\* second loop of crawl: only links to other pages in the corpus
crawl_prune(pages) ==
    [filename \in DOMAIN pages |-> {link \in pages[filename] : link \in DOMAIN pages}]

crawl(dir) == crawl_prune(crawl_links(dir))

(***************************************************************************)
(* transition_model                                                        *)
(***************************************************************************)
\* tm_weight with even = damping_factor / dict
tm_weight_even_by_dict(g, pg, d, key) ==
    LET pages == Cardinality(g[pg])
        random == (d[2] - d[1]) * pages
        even == d[1] * pages
    IN IF key \notin g[pg] THEN random ELSE even + random

\* probability[key] for a page with out-links, over the denominator
\* dd * dict * pages: random = (1 - d) / dict, even = d / pages
tm_weight(g, pg, d, key) ==
    LET dict == Cardinality(DOMAIN g)
        pages == Cardinality(g[pg])
        random == (d[2] - d[1]) * pages
        even == d[1] * dict
    IN IF key \notin g[pg] THEN random ELSE even + random

transition_model(g, pg, d) ==
    LET dict == Cardinality(DOMAIN g)
        pages == Cardinality(g[pg])
    IN IF pages < 1
       THEN [den |-> dict, num |-> [key \in DOMAIN g |-> 1]]
       ELSE [den |-> d[2] * dict * pages,
             num |-> [key \in DOMAIN g |-> tm_weight(g, pg, d, key)]]

\* the distribution random.choice(list(corpus.keys())) draws from
uniform_choice(g) == [den |-> Cardinality(DOMAIN g), num |-> [key \in DOMAIN g |-> 1]]

\* two distributions over machine integers assign the same probabilities
DistEq(a, b) ==
    /\ DOMAIN a.num = DOMAIN b.num
    /\ \A k \in DOMAIN a.num : a.num[k] * b.den = b.num[k] * a.den

\* "if sample:" - None and the empty string are falsy
truthy(s) == s # None /\ s[1] # ""

(***************************************************************************)
(* iterate_pagerank: rank dicts are [den, num] over big naturals.          *)
(***************************************************************************)
RECURSIVE LcmOver(_)
LcmOver(S) ==
    IF S = {} THEN 1
    ELSE The({Lcm(k, LcmOver(S \ {k})) : k \in {CHOOSE x \in S : TRUE}})

\* least common multiple of the out-degrees len(corpus[link_page]) > 0
OutLcm(g) == LcmOver({Cardinality(g[q]) : q \in DOMAIN g} \ {0})

\* one pass multiplies the common denominator by dd * page_num * OutLcm
Scale(g, d) == d[2] * Cardinality(DOMAIN g) * OutLcm(g)

\* old_dict[page] = 1 / page_num
initial_ranks(g) ==
    [den |-> BFromNat(Cardinality(DOMAIN g)), num |-> [p \in DOMAIN g |-> <<1>>]]

\* {}
empty_ranks == [den |-> <<1>>, num |-> <<>>]

\* rank_term without "if len(corpus[link_page]) == 0"
rank_term_nosink(g, old, p, link_page) ==
    IF p \in g[link_page]
    THEN BMul(old.num[link_page],
              Cardinality(DOMAIN g) * (OutLcm(g) \div Cardinality(g[link_page])))
    ELSE <<>>

\* rank_term with old_dict[link_page] / len(corpus) for a linking page
rank_term_by_pages(g, old, p, link_page) ==
    IF p \in g[link_page] \/ g[link_page] = {}
    THEN BMul(old.num[link_page], OutLcm(g))
    ELSE <<>>

\* what one link_page adds to tmp, over the denominator old.den * page_num * OutLcm
rank_term(g, old, p, link_page) ==
    The({BAdd(IF p \in g[link_page]
              THEN BMul(old.num[link_page], Cardinality(DOMAIN g) * (lcm \div out))
              ELSE <<>>,
              IF out = 0 THEN BMul(old.num[link_page], lcm) ELSE <<>>) :
           out \in {Cardinality(g[link_page])}, lcm \in {OutLcm(g)}})

\* new_rank without "tmp *= damping_factor"
new_rank_undamped(g, d, old, p) ==
    LET tmp == BSumOver([q \in DOMAIN g |-> rank_term(g, old, p, q)], DOMAIN g)
    IN BAdd(BMul(tmp, d[2]), BMul(old.den, (d[2] - d[1]) * OutLcm(g)))

\* new_dict[page] over the denominator old.den * Scale(g, d):
\* tmp *= damping_factor; tmp += (1 - damping_factor) / page_num
new_rank(g, d, old, p) ==
    LET tmp == BSumOver([q \in DOMAIN g |-> rank_term(g, old, p, q)], DOMAIN g)
    IN BAdd(BMul(tmp, d[1]), BMul(old.den, (d[2] - d[1]) * OutLcm(g)))

\* the new_dict of one full pass of the while loop
update(g, d, old) ==
    The({[den |-> BMul(o.den, Scale(g, d)),
          num |-> [p \in DOMAIN g |-> new_rank(g, d, o, p)]] : o \in {old}})

\* max([abs(new_dict[x] - old_dict[x]) for x in old_dict]), with
\* new.den = old.den * k
max_diff(old, new, k) ==
    The({[den |-> nw.den,
          num |-> BMaxOver([x \in DOMAIN o.num |->
                               BAbsDiff(nw.num[x], BMul(o.num[x], k))],
                           DOMAIN o.num)] : o \in {old}, nw \in {new}})

\* diff < 0.001
below_threshold(df) == BLess(BMul(df.num, ThresholdInv), df.den)

(***************************************************************************)
(* Initial states.                                                         *)
(***************************************************************************)
InitOn(g, c) ==
    /\ directory = <<>>
    /\ heap = (1 :> g)
    /\ corpus = 1
    /\ damping_factor = DAMPING
    /\ page = ""
    /\ n = 0
    /\ i = 0
    /\ sample = None
    /\ sample_count = 0
    /\ weights = NoDist
    /\ old_dict = 0
    /\ new_dict = 0
    /\ diff = NoDiff
    /\ pc = "idle"
    /\ fn = ""
    /\ returned = <<>>
    /\ calls = c

InitCrawl ==
    /\ directory \in Directories
    /\ heap = <<>>
    /\ corpus = 0
    /\ damping_factor = DAMPING
    /\ page = ""
    /\ n = 0
    /\ i = 0
    /\ sample = None
    /\ sample_count = 0
    /\ weights = NoDist
    /\ old_dict = 0
    /\ new_dict = 0
    /\ diff = NoDiff
    /\ pc = "crawl"
    /\ fn = ""
    /\ returned = <<>>
    /\ calls = 0

InitTransition == \E g \in SolverGraphs : InitOn(g, 1)
InitSampler == \E g \in SamplerGraphs : InitOn(g, 1)
InitSolver == \E g \in SolverGraphs : InitOn(g, 1)
InitFrame == \E g \in FrameGraphs : InitOn(g, MaxCalls)

(***************************************************************************)
(* Actions.                                                                *)
(***************************************************************************)
CanCall == pc \in {"idle", "returned"} /\ calls > 0

\* the locals of a call that has returned are gone
Return(h, a) ==
    /\ returned' = Append(returned, a)
    /\ heap' = Collect(h, {corpus} \cup Range(returned) \cup {a})
    /\ sample' = None
    /\ sample_count' = 0
    /\ old_dict' = 0
    /\ new_dict' = 0
    /\ pc' = "returned"

Crawl ==
    /\ pc = "crawl"
    /\ LET a == NewAddr(heap)
       IN /\ heap' = Store(heap, a, crawl(directory))
          /\ corpus' = a
    /\ pc' = "idle"
    /\ fn' = "crawl"
    /\ UNCHANGED <<directory, damping_factor, page, n, i, sample, sample_count,
                   weights, old_dict, new_dict, diff, returned, calls>>

\* transition_model(corpus, p, d), called directly
CallTransition(p, d) ==
    /\ CanCall
    /\ calls' = calls - 1
    /\ fn' = "transition_model"
    /\ damping_factor' = d
    /\ page' = p
    /\ IF p \notin DOMAIN heap[corpus]
       THEN \* corpus[page] raises KeyError
            /\ pc' = "error"
            /\ UNCHANGED <<heap, returned, sample, sample_count, old_dict, new_dict>>
       ELSE LET a == NewAddr(heap)
            IN Return(Store(heap, a, transition_model(heap[corpus], p, d)), a)
    /\ UNCHANGED <<directory, corpus, n, i, weights, diff>>

\* sample_pagerank, up to the loop
CallSample(d, nn) ==
    /\ CanCall
    /\ calls' = calls - 1
    /\ fn' = "sample_pagerank"
    /\ damping_factor' = d
    /\ n' = nn
    /\ i' = 0
    /\ LET a == dict_copy(heap, corpus)
           h1 == Store(heap, a, heap[corpus])
       IN /\ heap' = Store(h1, a, [k \in DOMAIN h1[a] |-> 0])
          /\ sample_count' = a
    /\ sample' = None
    /\ weights' = NoDist
    /\ pc' = "sample_loop"
    /\ UNCHANGED <<directory, corpus, page, old_dict, new_dict, diff, returned>>

\* "sample_count[sample] = 1"
Count_assign(h, a, k) == Store(h, a, [h[a] EXCEPT ![k] = 1])

\* sample_count[sample] += 1
Count(h, a, k) == Store(h, a, [h[a] EXCEPT ![k] = @ + 1])

\* one iteration of "for _ in range(n)"
SampleStep ==
    /\ pc = "sample_loop"
    /\ i < n
    /\ IF truthy(sample)
       THEN LET tm == transition_model(heap[corpus], sample[1], damping_factor)
            IN \E k \in DOMAIN tm.num :
                  /\ tm.num[k] > 0
                  /\ sample' = <<k>>
                  /\ weights' = tm
                  /\ heap' = Count(heap, sample_count, k)
                  /\ i' = i + 1
                  /\ pc' = pc
       ELSE IF DOMAIN heap[corpus] = {}
            THEN \* random.choice of an empty list raises IndexError
                 /\ pc' = "error"
                 /\ UNCHANGED <<heap, sample, weights, i>>
            ELSE \E k \in DOMAIN heap[corpus] :
                  /\ sample' = <<k>>
                  /\ weights' = uniform_choice(heap[corpus])
                  /\ heap' = Count(heap, sample_count, k)
                  /\ i' = i + 1
                  /\ pc' = pc
    /\ UNCHANGED <<directory, corpus, damping_factor, page, n, sample_count,
                   old_dict, new_dict, diff, fn, returned, calls>>

\* sample_count[i] /= n for every key
frequencies(counts, nn) ==
    IF nn > 0 THEN [den |-> nn, num |-> counts]
    ELSE [den |-> 0 - nn, num |-> [k \in DOMAIN counts |-> 0 - counts[k]]]

\* the loop is over: divide and return
SampleFinish ==
    /\ pc = "sample_loop"
    /\ i >= n
    /\ IF DOMAIN heap[sample_count] # {} /\ n = 0
       THEN \* ZeroDivisionError
            /\ pc' = "error"
            /\ UNCHANGED <<heap, returned, sample, sample_count, old_dict, new_dict>>
       ELSE IF DOMAIN heap[sample_count] = {}
            THEN Return(heap, sample_count)
            ELSE Return(Store(heap, sample_count,
                              frequencies(heap[sample_count], n)),
                        sample_count)
    /\ UNCHANGED <<directory, corpus, damping_factor, page, n, i, weights,
                   diff, fn, calls>>

\* iterate_pagerank, up to the while loop
CallIterate(d) ==
    /\ CanCall
    /\ calls' = calls - 1
    /\ fn' = "iterate_pagerank"
    /\ damping_factor' = d
    /\ LET a1 == NewAddr(heap)
           h1 == Store(heap, a1, initial_ranks(heap[corpus]))
           a2 == NewAddr(h1)
       IN /\ heap' = Store(h1, a2, empty_ranks)
          /\ old_dict' = a1
          /\ new_dict' = a2
    /\ diff' = NoDiff
    /\ pc' = "iter_loop"
    /\ UNCHANGED <<directory, corpus, page, n, i, sample, sample_count,
                   weights, returned>>

\* one pass of "while True"
IteratePass ==
    /\ pc = "iter_loop"
    /\ IF DOMAIN heap[corpus] = {}
       THEN \* max([]) raises ValueError
            /\ pc' = "error"
            /\ UNCHANGED <<heap, old_dict, diff>>
       ELSE \E h1 \in {Store(heap, new_dict,
                               update(heap[corpus], damping_factor, heap[old_dict]))} :
            \E df \in {max_diff(h1[old_dict], h1[new_dict],
                                 Scale(heap[corpus], damping_factor))} :
               /\ diff' = df
               /\ IF below_threshold(df)
                  THEN /\ pc' = "iter_break"
                       /\ heap' = h1
                       /\ old_dict' = old_dict
                  ELSE LET a == dict_copy(h1, new_dict)
                       IN /\ pc' = pc
                          /\ old_dict' = a
                          /\ heap' = Collect(Store(h1, a, h1[new_dict]),
                                             {corpus, a, new_dict} \cup Range(returned))
    /\ UNCHANGED <<directory, corpus, damping_factor, page, n, i, sample,
                   sample_count, weights, new_dict, fn, returned, calls>>

\* "return new_dict"
iterate_result_new(old, new) == new

\* return old_dict
iterate_result(old, new) == old

\* break; return old_dict
IterateReturn ==
    /\ pc = "iter_break"
    /\ Return(heap, iterate_result(old_dict, new_dict))
    /\ diff' = NoDiff
    /\ UNCHANGED <<directory, corpus, damping_factor, page, n, i, weights,
                   fn, calls>>

(***************************************************************************)
(* Specifications.                                                         *)
(***************************************************************************)
SampleCounts == (0 - 1)..MaxSamples
AllDampings == Dampings \cup BadDampings

TransitionCall == \E p \in Range(Pages), d \in Dampings : CallTransition(p, d)
SampleCall == \E d \in AllDampings, nn \in SampleCounts : CallSample(d, nn)
IterateCall == \E d \in AllDampings : CallIterate(d)

NextCrawl == Crawl
NextTransition == TransitionCall
NextSampler == SampleCall \/ SampleStep \/ SampleFinish
NextSolver == IterateCall \/ IteratePass \/ IterateReturn
NextFrame == TransitionCall \/ SampleCall \/ SampleStep \/ SampleFinish
             \/ IterateCall \/ IteratePass \/ IterateReturn

SpecCrawl == InitCrawl /\ [][NextCrawl]_vars
SpecTransition == InitTransition /\ [][NextTransition]_vars
SpecSampler == InitSampler /\ [][NextSampler]_vars
SpecSolver == InitSolver /\ [][NextSolver]_vars
SpecSolverFair == SpecSolver /\ WF_vars(NextSolver)
SpecFrame == InitFrame /\ [][NextFrame]_vars

(***************************************************************************)
(* Properties.                                                             *)
(***************************************************************************)
Graph == heap[corpus]

\* the dict the last call returned
LastReturned == heap[returned[Len(returned)]]

PageCount == Cardinality(DOMAIN Graph)

\* a non-empty corpus and a damping factor in (0,1)
ValidConfig == DOMAIN Graph # {} /\ ValidDamping(damping_factor)

\* the values of a rank dict over big naturals sum to exactly 1
SumsToOne(r) == BSumOver(r.num, DOMAIN r.num) = r.den

\* C1: transition_model returns one entry per page of the corpus, every
\* entry is at least (1 - d) / |V|, and the entries sum to exactly 1.
C1_TransitionIsDistribution ==
    (pc = "returned" /\ fn = "transition_model") =>
        LET t == LastReturned
            d == damping_factor
        IN /\ DOMAIN t.num = DOMAIN Graph
           /\ \A k \in DOMAIN Graph :
                 t.num[k] * d[2] * PageCount >= (d[2] - d[1]) * t.den
           /\ SumOver(t.num, DOMAIN Graph) = t.den

C1_Witness ==
    /\ pc = "returned" /\ fn = "transition_model"
    /\ PageCount = Len(Pages)
    /\ damping_factor = DAMPING
    /\ Graph[page] # {}
    /\ \E k \in DOMAIN Graph : k \notin Graph[page] /\ k # page

\* C2: in iterate_pagerank the ranks sum to 1 at initialisation, after
\* every full pass and in the returned dict; every returned rank lies in
\* [0,1] and every page has an entry.
C2_RanksSumToOne ==
    (fn = "iterate_pagerank" /\ ValidConfig) =>
        /\ pc \in {"iter_loop", "iter_break"} =>
              /\ DOMAIN heap[old_dict].num = DOMAIN Graph
              /\ SumsToOne(heap[old_dict])
              /\ DOMAIN heap[new_dict].num # {} =>
                    /\ DOMAIN heap[new_dict].num = DOMAIN Graph
                    /\ SumsToOne(heap[new_dict])
        /\ pc = "returned" =>
              /\ DOMAIN LastReturned.num = DOMAIN Graph
              /\ SumsToOne(LastReturned)
              /\ \A p \in DOMAIN Graph : BLeq(LastReturned.num[p], LastReturned.den)

C2_Witness ==
    /\ pc = "returned" /\ fn = "iterate_pagerank"
    /\ damping_factor = DAMPING
    /\ \E s \in DOMAIN Graph : Graph[s] = {}
    /\ \E q \in DOMAIN Graph : Graph[q] # {}
    /\ LastReturned # initial_ranks(Graph)

\* C3: in sample_pagerank with n >= 1 the counters sum to k after the k-th
\* step, the returned frequencies sum to 1 with an entry for every page
\* (0 for unvisited pages), and with n = 1 one page has mass 1 and all
\* others 0.
C3_CountsSumToSteps ==
    (fn = "sample_pagerank" /\ n >= 1 /\ DOMAIN Graph # {}) =>
        /\ pc = "sample_loop" =>
              /\ DOMAIN heap[sample_count] = DOMAIN Graph
              /\ SumOver(heap[sample_count], DOMAIN Graph) = i
        /\ pc = "returned" =>
              LET r == LastReturned
              IN /\ i = n
                 /\ DOMAIN r.num = DOMAIN Graph
                 /\ r.den > 0
                 /\ \A k \in DOMAIN Graph : r.num[k] >= 0
                 /\ SumOver(r.num, DOMAIN Graph) = r.den
                 /\ n = 1 => \E k \in DOMAIN Graph :
                                /\ r.num[k] = r.den
                                /\ \A j \in DOMAIN Graph \ {k} : r.num[j] = 0

C3_Witness ==
    /\ pc = "returned" /\ fn = "sample_pagerank"
    /\ n >= 2
    /\ PageCount = 3
    /\ \E k \in DOMAIN Graph : LastReturned.num[k] = 0
    /\ \E k \in DOMAIN Graph : LastReturned.num[k] >= 2

\* the pages a directory declares
Declared == {f \in DOMAIN directory : EndsWithHtml(f)}

\* C4: the corpus crawl builds has exactly the declared pages as keys, no
\* page in its own link set and every link target among the keys; a page
\* whose link set becomes empty stays a key.
C4_CrawlBuildsValidGraph ==
    (pc = "idle" /\ fn = "crawl") =>
        /\ DOMAIN Graph = Declared
        /\ \A f \in DOMAIN Graph :
              /\ f \notin Graph[f]
              /\ Graph[f] \subseteq DOMAIN Graph
              /\ Graph[f] = (directory[f] \cap Declared) \ {f}

C4_Witness ==
    /\ pc = "idle" /\ fn = "crawl"
    /\ Cardinality(DOMAIN Graph) = 2
    /\ \E f \in DOMAIN Graph :
          /\ {f, "ext.html", "notes.txt"} \subseteq directory[f]
          /\ Graph[f] = {}

\* a pass of the while loop that follows an earlier pass
LaterPass ==
    /\ fn = "iterate_pagerank" /\ ValidConfig
    /\ pc = "iter_loop" /\ pc' \in {"iter_loop", "iter_break"}
    /\ diff # NoDiff

\* diff' <= f * damping_factor * diff
DiffShrinksBy(f) ==
    /\ diff'.den = BMul(diff.den, Scale(Graph, damping_factor))
    /\ BLeq(BMul(diff'.num, damping_factor[2]),
            BMul(BMul(diff.num, damping_factor[1] * f),
                 Scale(Graph, damping_factor)))

\* iterate_pagerank returns
C5_Terminates ==
    (fn = "iterate_pagerank" /\ ValidConfig /\ pc = "iter_loop") ~> (pc = "returned")

\* C5 as stated: the loop eventually returns, and the maximum change
\* shrinks by a factor of at most d per pass.
C5_Original ==
    /\ C5_Terminates
    /\ [][LaterPass => DiffShrinksBy(1)]_vars

\* C5 amended: the loop eventually returns; the maximum change of a pass is
\* at most d times that of the previous pass on corpora of at most three
\* pages, and at most d * (|V| div 2) times it in general.
C5_Amended ==
    /\ C5_Terminates
    /\ [][LaterPass => DiffShrinksBy(IF PageCount <= 3 THEN 1 ELSE PageCount \div 2)]_vars

C5_Witness ==
    /\ pc = "returned" /\ fn = "iterate_pagerank"
    /\ PageCount = 4
    /\ damping_factor = DAMPING
    /\ LastReturned # initial_ranks(Graph)

\* an empty graph, a sample count n <= 0 or a damping factor outside (0,1)
ConfigError ==
    DOMAIN Graph = {} \/ n <= 0 \/ ~ValidDamping(damping_factor)

\* C6: a configuration error ends in an error raised before any sampling
\* step, never in a returned rank mapping.
C6_ConfigErrorsAreFatal ==
    (fn = "sample_pagerank" /\ ConfigError) => (pc # "returned" /\ i = 0)

\* s has no out-links and every other page links to s
SinkHub(s) ==
    /\ Graph[s] = {}
    /\ \A q \in DOMAIN Graph \ {s} : s \in Graph[q]

\* the rank of s exceeds that of every other page, and 1/3 on three pages
Dominates(r, s) ==
    /\ \A q \in DOMAIN Graph \ {s} : BLess(r.num[q], r.num[s])
    /\ PageCount = 3 => BLess(r.den, BMul(r.num[s], 3))

C7_Case ==
    /\ pc = "returned" /\ fn = "iterate_pagerank"
    /\ ValidDamping(damping_factor)
    /\ PageCount \in {2, 3}

\* the first update changes some rank by at least 0.001
FirstPassAdopted ==
    ~below_threshold(max_diff(initial_ranks(Graph),
                              update(Graph, damping_factor, initial_ranks(Graph)),
                              Scale(Graph, damping_factor)))

\* C7 as stated: for every d in (0,1) the returned rank of the sink that
\* all other pages link to exceeds 1/3 (three pages) and the rank of every
\* other page (two pages: sink "1.html", three pages: any such sink).
C7_Original ==
    C7_Case =>
        \A s \in DOMAIN Graph :
            (SinkHub(s) /\ (PageCount = 2 => s = "1.html")) => Dominates(LastReturned, s)

\* C7 amended: the same, for the damping factors with which the first
\* update changes some rank by at least 0.001.
C7_Amended ==
    (C7_Case /\ FirstPassAdopted) =>
        \A s \in DOMAIN Graph :
            (SinkHub(s) /\ (PageCount = 2 => s = "1.html")) => Dominates(LastReturned, s)

C7_Witness ==
    /\ C7_Case /\ FirstPassAdopted
    /\ PageCount = 3
    /\ damping_factor = DAMPING
    /\ \E s \in DOMAIN Graph :
          /\ SinkHub(s)
          /\ \E q \in DOMAIN Graph : Cardinality(Graph[q]) = 2

\* the dicts a call works on are new objects
LocalsAreFresh ==
    \A a \in {sample_count', old_dict', new_dict'} \ {0} :
        a # corpus /\ a \notin Range(returned)

\* C8: no call changes the corpus, and a dict returned by one call is not
\* altered by a later call.
C8_FrameStep ==
    /\ corpus' = corpus
    /\ LocalsAreFresh
    /\ Len(returned') > Len(returned) =>
          returned'[Len(returned')] \notin {corpus} \cup Range(returned)
    /\ heap'[corpus] = heap[corpus]
    /\ \A k \in DOMAIN returned :
          /\ returned'[k] = returned[k]
          /\ heap'[returned[k]] = heap[returned[k]]

C8_GraphAndResultsUnchanged == [][C8_FrameStep]_vars

C8_Witness ==
    /\ pc = "returned"
    /\ Len(returned) >= 2
    /\ fn = "sample_pagerank"
    /\ PageCount = 2
    /\ heap[returned[1]] # heap[returned[2]]

\* C9: every step after the first draws its page from
\* transition_model(corpus, previous page, d), so a page of probability 0
\* is never visited next, whatever the page identifiers are.
C9_LaterStepsUseTransitionModel ==
    [][(fn = "sample_pagerank" /\ pc = "sample_loop" /\ i >= 1 /\ i' = i + 1)
         => /\ DistEq(weights', transition_model(Graph, sample[1], damping_factor))
            /\ weights'.num[sample'[1]] > 0]_vars

\* C10: iterate_pagerank returns the ranks from before the last pass; one
\* more update changes every returned rank by less than 0.001, and if the
\* first update changes every rank by less than 0.001 the result is the
\* initial uniform vector.
C10_ReturnsOldRanks ==
    (pc = "returned" /\ fn = "iterate_pagerank" /\ ValidConfig) =>
        LET r == LastReturned
        IN /\ below_threshold(max_diff(r, update(Graph, damping_factor, r),
                                       Scale(Graph, damping_factor)))
           /\ ~FirstPassAdopted => r = initial_ranks(Graph)

C10_Witness ==
    /\ pc = "returned" /\ fn = "iterate_pagerank" /\ ValidConfig
    /\ ~FirstPassAdopted
    /\ LastReturned = initial_ranks(Graph)
    /\ update(Graph, damping_factor, LastReturned).num
          # [p \in DOMAIN Graph |-> BMul(<<1>>, Scale(Graph, damping_factor))]

====
